---- MODULE Spec2Model ----
(***************************************************************************)
(* gopwsh: a host for one long-lived PowerShell process.  Commands are     *)
(* written to the process's stdin followed by two random boundaries, and   *)
(* the output of each command is what is read from stdout and stderr up    *)
(* to the boundary.  Text is modelled as sequences of one-character        *)
(* strings; the two streams are OS pipes filled by the interpreter.        *)
(***************************************************************************)
EXTENDS Integers, Sequences, FiniteSets, TLC

VARIABLES
    newIn,      \* arguments of New and the answers of the backend it runs on
    newOut,     \* what New returned, once done: [done, s, err, calls]
    backend,    \* Shell.backend: "started" or "nil"
    proc,       \* the interpreter process: "running" or "exited"
    stdinOpen,  \* the write end of the process's stdin is not closed
    stdinBuf,   \* lines written to stdin the interpreter has not handled yet
    pipe,       \* pipe[st]: bytes written by the interpreter and not read yet
    pc,         \* where the caller is: "idle", "loop", "await", "x_write", ...
    call,       \* the call in progress or last returned: [op, cmds, startOpen,
                \* afterFatal]
    idx,        \* Execute: number of the command being run (1-based)
    stdout,     \* Execute: local variable stdout
    stderr,     \* Execute: local variable stderr
    ret,        \* what the last call returned: [stdout, stderr, err]
    exitFrom,   \* who called Exit: "api" or "execute"
    pendErr,    \* execute: the error it returns once Exit is done
    marker,     \* marker[st]: boundary + newLine of the running streamReader
    output,     \* output[st]: the accumulator of the running streamReader
    rd,         \* rd[st]: the reading task: [st, by]; st is "none", "run" (in its
                \* loop), "stop" (told to stop), "done", "err" or "halt"
    fr,         \* fr[st]: the streamReader task: [st, val, err]; st is "none",
                \* "pending", "ok", "fail" or "cancelled"
    io,         \* backend calls made by the current call: [write, read, close, wait],
                \* and split: a Read of the call ended inside the marker
    sent,       \* commands of the current call written to stdin, in order
    partial,    \* the accumulators when the failing command of the call failed
    hist,       \* what happened on the session so far: [calls, clean, fatal,
                \* crashed]
    race        \* what runs beside the caller: closer, where a concurrent Exit
                \* call is ("none", "x_write", "x_close", "x_wait", "done");
                \* late, execute used the backend after that Exit had begun;
                \* stray, a reading task completed a Read after the call that
                \* started it had returned

vars == <<newIn, newOut, backend, proc, stdinOpen, stdinBuf, pipe, pc, call,
          idx, stdout, stderr, ret, exitFrom, pendErr, marker, output, rd, fr,
          io, sent, partial, hist, race>>

\* ------------------------------------------------------------------ bounds
\* API calls made on one session
MaxCalls == 3
\* commands passed to one Execute call
MaxCmds == 2
\* bytes of the longest Read during which the accumulator is read torn
MaxTorn == 2

\* ------------------------------------------------------------------- text
Streams == {"out", "err"}

Nil == "nil"

newLine == <<"n">>

bufferSize == 64

\* the text whose appearance in an accumulator is fatal: "ParserError"
FatalMarker == <<"P", "E">>

\* the values randstr.Hex can return; the two boundaries of one command are
\* taken to differ
Hex == {"0", "1"}

createBoundary(h) == <<"$">> \o <<h>> \o <<"$">>

Min(a, b) == IF a < b THEN a ELSE b

\* strings.HasSuffix
HasSuffix(s, suffix) ==
    /\ Len(s) >= Len(suffix)
    /\ SubSeq(s, Len(s) - Len(suffix) + 1, Len(s)) = suffix

\* strings.TrimSuffix
TrimSuffix(s, suffix) ==
    IF HasSuffix(s, suffix) THEN SubSeq(s, 1, Len(s) - Len(suffix)) ELSE s

\* strings.Contains
Contains(s, substr) ==
    \E i \in 1..(Len(s) - Len(substr) + 1) :
        SubSeq(s, i, i + Len(substr) - 1) = substr

\* ---------------------------------------------------------------- New(...)
\* The names LookPath is asked for, and the path it answers when it finds one.
PathOf == [pwsh |-> "/bin/pwsh", powershell |-> "/bin/powershell", sudo |-> "/bin/sudo"]

\* The options a caller may pass.  elev: Elevated was applied, with these args.
Decorators ==
    [pwsh : {"", "/opt/pwsh"},
     elev : [applied : {FALSE}, args : {<<>>}]
            \cup [applied : {TRUE}, args : {<<>>, <<"">>, <<"/opt/sudo">>, <<"sudo">>}],
     wd : {"", "/w"},
     envCombined : BOOLEAN]

\* What the backend answers: which names LookPath finds, whether the process starts.
Worlds == [look : [DOMAIN PathOf -> BOOLEAN], start : BOOLEAN]

\* Elevated(sudoLocation ...string)
Elevated(sudoLocation, s) ==
    IF Len(sudoLocation) = 1
    THEN [s EXCEPT !.sudoLocation = sudoLocation[1]]
    ELSE [s EXCEPT !.sudoLocation = "sudo"]

Call(f, a) == [f |-> f, a |-> a]

\* The option functions, applied to the fresh Shell{envCombined: true}
ApplyDecorators(d) ==
    LET s0 == [pwshLocation |-> "", sudoLocation |-> "", wd |-> "", envCombined |-> TRUE]
        s1 == [s0 EXCEPT !.pwshLocation = d.pwsh, !.wd = d.wd,
                         !.envCombined = d.envCombined]
    IN  IF d.elev.applied THEN Elevated(d.elev.args, s1) ELSE s1

PwshArgs == <<"-NoExit", "-Command", "-">>

\* NewLocatePwsh looking for "powershell" before "pwsh"
NewLocatePwshLegacyFirst(s, w, calls) ==
    IF s.pwshLocation # ""
    THEN [s |-> s, err |-> Nil, calls |-> calls]
    ELSE IF w.look["powershell"]
    THEN [s |-> [s EXCEPT !.pwshLocation = PathOf["powershell"]], err |-> Nil,
          calls |-> calls \o <<[f |-> "LookPath", a |-> <<"powershell">>]>>]
    ELSE IF w.look["pwsh"]
    THEN [s |-> [s EXCEPT !.pwshLocation = PathOf["pwsh"]], err |-> Nil,
          calls |-> calls \o <<[f |-> "LookPath", a |-> <<"powershell">>],
                               [f |-> "LookPath", a |-> <<"pwsh">>]>>]
    ELSE [s |-> s, err |-> "Failed to locate a PowerShell binary",
          calls |-> calls \o <<[f |-> "LookPath", a |-> <<"powershell">>],
                               [f |-> "LookPath", a |-> <<"pwsh">>]>>]

\* New, from the lookup of the interpreter on: [s, err, calls]
NewLocatePwsh(s, w, calls) ==
    IF s.pwshLocation # ""
    THEN [s |-> s, err |-> Nil, calls |-> calls]
    ELSE IF w.look["pwsh"]
    THEN [s |-> [s EXCEPT !.pwshLocation = PathOf["pwsh"]], err |-> Nil,
          calls |-> calls \o <<Call("LookPath", <<"pwsh">>)>>]
    ELSE IF w.look["powershell"]
    THEN [s |-> [s EXCEPT !.pwshLocation = PathOf["powershell"]], err |-> Nil,
          calls |-> calls \o <<Call("LookPath", <<"pwsh">>),
                               Call("LookPath", <<"powershell">>)>>]
    ELSE [s |-> s, err |-> "Failed to locate a PowerShell binary",
          calls |-> calls \o <<Call("LookPath", <<"pwsh">>),
                               Call("LookPath", <<"powershell">>)>>]

\* New, the start of the process: through sudo when sudoLocation is set
NewStart(r, w) ==
    LET s == r.s IN
    IF r.err # Nil THEN r
    ELSE IF s.sudoLocation # ""
    THEN IF s.sudoLocation = "sudo" /\ ~w.look["sudo"]
         THEN [r EXCEPT !.err = "Failed to locate a sudo binary",
                        !.calls = @ \o <<Call("LookPath", <<"sudo">>)>>]
         ELSE LET sudo == IF s.sudoLocation = "sudo" THEN PathOf["sudo"]
                          ELSE s.sudoLocation
                  looked == IF s.sudoLocation = "sudo"
                            THEN <<Call("LookPath", <<"sudo">>)>> ELSE <<>>
              IN  [s |-> [s EXCEPT !.sudoLocation = sudo],
                   err |-> IF w.start THEN Nil
                           ELSE "Failed to start powershell process with sudo",
                   calls |-> r.calls \o looked
                       \o <<Call("StartProcess", <<sudo, s.pwshLocation>> \o PwshArgs)>>]
    ELSE [r EXCEPT !.err = IF w.start THEN Nil
                           ELSE "Failed to start powershell process",
                   !.calls = @ \o <<Call("StartProcess", <<s.pwshLocation>> \o PwshArgs)>>]

\* New(decorators...): the shell it returns (a set: empty for a nil *Shell), the
\* error, and the calls it made on the backend, in order.
New(d, w) ==
    LET s == ApplyDecorators(d)
        pushed == <<Call("SetEnv", <<IF s.envCombined THEN "combined" ELSE "alone">>),
                   Call("SetWorkingDir", <<s.wd>>)>>
        r == NewStart(NewLocatePwsh(s, w, pushed), w)
    IN  [done |-> TRUE, s |-> IF r.err # Nil THEN {} ELSE {r.s}, err |-> r.err,
         calls |-> r.calls]

DefaultDecorators ==
    [pwsh |-> "", elev |-> [applied |-> FALSE, args |-> <<>>], wd |-> "",
     envCombined |-> TRUE]

GoodWorld == [look |-> [n \in DOMAIN PathOf |-> TRUE], start |-> TRUE]

\* ------------------------------------------------------------ the process
\* The commands a caller may pass; a command is known by what PowerShell does
\* with it: the text it writes to each stream, or a parse error, which writes
\* the error to stderr and runs nothing of the line.
Commands ==
    {[name |-> "ab", out |-> <<"a">>, err |-> <<"b">>, parses |-> TRUE],
     [name |-> "bad", out |-> <<>>, err |-> FatalMarker, parses |-> FALSE],
     [name |-> "echoPE", out |-> FatalMarker, err |-> <<>>, parses |-> TRUE],
     [name |-> "echoB", out |-> createBoundary("0") \o newLine, err |-> <<>>,
      parses |-> TRUE]}

RECURSIVE SeqsUpTo(_, _)
SeqsUpTo(S, n) ==
    IF n = 0 THEN {<<>>}
    ELSE LET shorter == SeqsUpTo(S, n - 1)
         IN  shorter \cup {Append(q, x) : q \in {p \in shorter : Len(p) = n - 1}, x \in S}

CmdSeqs == SeqsUpTo(Commands, MaxCmds)

\* fmt.Sprintf("%s; echo '%s'; [Console]::Error.WriteLine('%s')%s", ...)
Frame(cmd, outBoundary, errBoundary) ==
    [kind |-> "cmd", cmd |-> cmd, out |-> outBoundary, err |-> errBoundary]

ExitLine == [kind |-> "exit"]

\* What the interpreter writes to stream st for one framed line
Emits(line, st) ==
    IF ~line.cmd.parses
    THEN IF st = "err" THEN line.cmd.err ELSE <<>>
    ELSE IF st = "out" THEN line.cmd.out \o line.out \o newLine
         ELSE line.cmd.err \o line.err \o newLine

\* The interpreter handles the next line of its stdin.
Interp ==
    /\ proc = "running"
    /\ stdinBuf # <<>>
    /\ LET line == Head(stdinBuf) IN
         IF line.kind = "exit"
         THEN /\ proc' = "exited"
              /\ stdinBuf' = <<>>
              /\ pipe' = pipe
         ELSE /\ proc' = proc
              /\ stdinBuf' = Tail(stdinBuf)
              /\ pipe' = [st \in Streams |-> pipe[st] \o Emits(line, st)]
    /\ UNCHANGED <<race, newIn, newOut, backend, stdinOpen, pc, call, idx, stdout, stderr,
                   ret, exitFrom, pendErr, marker, output, rd, fr, io, sent, hist,
                   partial>>

\* The process dies by itself.
Crash ==
    /\ proc = "running"
    /\ proc' = "exited"
    /\ stdinBuf' = <<>>
    /\ hist' = [hist EXCEPT !.crashed = TRUE]
    /\ UNCHANGED <<race, newIn, newOut, backend, stdinOpen, pipe, pc, call, idx, stdout,
                   stderr, ret, exitFrom, pendErr, marker, output, rd, fr, io, sent,
                   partial>>

\* -------------------------------------------------------------- the caller
NoErr == [kind |-> "none", text |-> <<>>, cmd |-> ""]

\* goerr.Wrap("Cannot execute commands on closed shells.", cmd)
ClosedErr == [kind |-> "closed", text |-> <<"closed">>, cmd |-> ""]

\* goerr.Wrap(err, "Could not send PowerShell command", cmd)
WriteErr == [kind |-> "write", text |-> <<"EPIPE">>, cmd |-> ""]

\* t.Reject(err, "failed to read stream")
ReadErr == [kind |-> "read", text |-> <<"EOF">>, cmd |-> ""]

\* t.Reject(output): the error's message is the accumulator
FatalErr(text) == [kind |-> "fatal", text |-> text, cmd |-> ""]

\* Wrap naming the first command of the call
WrapFirst(err, cmd) == [err EXCEPT !.cmd = call.cmds[1].name]

\* goerr.Wrap(err, "failed to execute", cmd)
Wrap(err, cmd) == [err EXCEPT !.cmd = cmd.name]

\* No concurrent Exit call, no Read after the return
NoRace == [closer |-> "none", late |-> FALSE, stray |-> FALSE]

NoIO == [write |-> FALSE, read |-> FALSE, close |-> FALSE, wait |-> FALSE,
         split |-> FALSE]

\* The test for a closed shell left out
BackendIsNilNever == FALSE

\* if s.backend == nil
BackendIsNil == backend = Nil

NoTask == [st \in Streams |-> [st |-> "none", val |-> <<>>, err |-> NoErr]]

NoReader == [st \in Streams |-> [st |-> "none", by |-> 0]]

\* A text holds something createBoundary can return
HasBoundary(text) == \E h \in Hex : Contains(text, createBoundary(h))

\* A reading task is still in its loop
Reading(r) == r.st \in {"run", "stop"}

\* A new call starts: the locals of the tasks that have returned are gone; a
\* reading task still in its loop keeps its accumulator and marker.
Retire ==
    /\ rd' = [st \in Streams |-> IF Reading(rd[st]) THEN rd[st] ELSE NoReader[st]]
    /\ output' = [st \in Streams |-> IF Reading(rd[st]) THEN output[st] ELSE <<>>]
    /\ marker' = [st \in Streams |-> IF Reading(rd[st]) THEN marker[st] ELSE <<>>]
    /\ fr' = NoTask
    /\ pendErr' = NoErr
    /\ ret' = [stdout |-> <<>>, stderr |-> <<>>, err |-> NoErr]
    /\ partial' = [st \in Streams |-> <<>>]

\* The return of Execute: stdout, stderr and the error, wrapped with the command
ExecuteReturn(o, e, err) ==
    /\ ret' = [stdout |-> stdout \o o, stderr |-> stderr \o e,
               err |-> IF err.kind = "none" THEN err ELSE Wrap(err, call.cmds[idx])]
    /\ stdout' = stdout \o o
    /\ stderr' = stderr \o e
    /\ pc' = "idle"
    /\ hist' = [hist EXCEPT !.fatal = @ \/ err.kind = "fatal"]

\* Some command of cmds writes text that holds a boundary
Colliding(cmds) ==
    \E i \in 1..Len(cmds) : HasBoundary(cmds[i].out) \/ HasBoundary(cmds[i].err)

\* A caller calls Execute(cmds...).  Commands whose output holds a boundary
\* are explored in the last call of a session only.
ExecuteCall(cmds) ==
    /\ pc = "idle"
    /\ hist.calls < MaxCalls
    /\ Colliding(cmds) => hist.calls = MaxCalls - 1
    /\ hist' = [hist EXCEPT !.calls = @ + 1]
    /\ call' = [op |-> "Execute", cmds |-> cmds, startOpen |-> backend # Nil,
                afterFatal |-> hist.fatal]
    /\ idx' = 1
    /\ stdout' = <<>>
    /\ stderr' = <<>>
    /\ io' = NoIO
    /\ sent' = <<>>
    /\ pc' = "loop"
    /\ exitFrom' = "api"
    /\ Retire
    /\ UNCHANGED <<race, newIn, newOut, backend, proc, stdinOpen, stdinBuf, pipe>>

\* Execute: the loop is over, the call returns
ExecuteDone ==
    /\ pc = "loop"
    /\ idx > Len(call.cmds)
    /\ ret' = [stdout |-> stdout, stderr |-> stderr, err |-> NoErr]
    /\ pc' = "idle"
    /\ UNCHANGED <<race, newIn, newOut, backend, proc, stdinOpen, stdinBuf, pipe, call, idx,
                   stdout, stderr, exitFrom, pendErr, marker, output, rd, fr, io, sent,
                   hist, partial>>

\* Execute calls execute(cmd) for the next command; execute runs up to the
\* point where it awaits the two streamReader tasks.
execute(outBoundary, errBoundary) ==
    /\ pc = "loop"
    /\ idx <= Len(call.cmds)
    /\ LET cmd == call.cmds[idx] IN
        IF BackendIsNil
        THEN /\ ExecuteReturn(<<>>, <<>>, ClosedErr)
             /\ UNCHANGED <<stdinBuf, marker, output, rd, fr, io, sent>>
        ELSE IF proc # "running" \/ ~stdinOpen
        THEN /\ ExecuteReturn(<<>>, <<>>, WriteErr)
             /\ io' = [io EXCEPT !.write = TRUE]
             /\ UNCHANGED <<stdinBuf, marker, output, rd, fr, sent>>
        ELSE /\ stdinBuf' = Append(stdinBuf, Frame(cmd, outBoundary, errBoundary))
             /\ io' = [io EXCEPT !.write = TRUE]
             /\ sent' = Append(sent, cmd)
             /\ marker' = [st \in Streams |->
                              (IF st = "out" THEN outBoundary ELSE errBoundary) \o newLine]
             /\ output' = [st \in Streams |-> <<>>]
             /\ rd' = [st \in Streams |-> [st |-> "run", by |-> hist.calls]]
             /\ fr' = [st \in Streams |-> [st |-> "pending", val |-> <<>>, err |-> NoErr]]
             /\ hist' = [hist EXCEPT !.clean =
                            @ /\ ~HasBoundary(cmd.out) /\ ~HasBoundary(cmd.err)]
             /\ pc' = "await"
             /\ UNCHANGED <<stdout, stderr, ret>>
    /\ UNCHANGED <<race, newIn, newOut, backend, proc, stdinOpen, pipe, call, idx, exitFrom,
                   pendErr, partial>>

\* ------------------------------------------------------------ streamReader
\* The reading task on st was started by the call in progress
Mine(st) == rd[st].by = hist.calls /\ pc # "idle"

\* The accumulator ends with a part of the marker, and not with all of it
EndsInside(acc, m) ==
    \E k \in 1..(Len(m) - 1) : HasSuffix(acc, SubSeq(m, 1, k))

\* The reading task of streamReader: one stream.Read of up to bufferSize bytes,
\* appended to the accumulator, and the test for the marker.  A task told to
\* stop while it is inside Read returns after that Read.
ReaderRead(st, n) ==
    /\ Reading(rd[st])
    /\ n \in 1..Min(bufferSize, Len(pipe[st]))
    /\ pipe' = [pipe EXCEPT ![st] = SubSeq(@, n + 1, Len(@))]
    /\ output' = [output EXCEPT ![st] = @ \o SubSeq(pipe[st], 1, n)]
    /\ rd' = [rd EXCEPT ![st].st =
                 IF rd[st].st = "stop" THEN "halt"
                 ELSE IF HasSuffix(output'[st], marker[st]) THEN "done" ELSE "run"]
    /\ io' = [io EXCEPT !.read = @ \/ Mine(st),
                        !.split = @ \/ (Mine(st) /\ EndsInside(output'[st], marker[st]))]
    /\ race' = [race EXCEPT !.stray = @ \/ ~Mine(st)]
    /\ UNCHANGED <<newIn, newOut, backend, proc, stdinOpen, stdinBuf, pc, call, idx,
                   stdout, stderr, ret, exitFrom, pendErr, marker, fr, sent, hist,
                   partial>>

\* stream.Read fails: the pipe is empty and its write end is gone.
ReaderFail(st) ==
    /\ Reading(rd[st])
    /\ pipe[st] = <<>>
    /\ proc = "exited"
    /\ rd' = [rd EXCEPT ![st].st = IF rd[st].st = "stop" THEN "halt" ELSE "err"]
    /\ io' = [io EXCEPT !.read = @ \/ Mine(st)]
    /\ race' = [race EXCEPT !.stray = @ \/ ~Mine(st)]
    /\ UNCHANGED <<newIn, newOut, backend, proc, stdinOpen, stdinBuf, pipe, pc, call,
                   idx, stdout, stderr, ret, exitFrom, pendErr, marker, output, fr,
                   sent, hist, partial>>

\* A reading task told to stop between two reads sees ShouldStop and returns.
ReaderStop(st) ==
    /\ rd[st].st = "stop"
    /\ rd' = [rd EXCEPT ![st].st = "halt"]
    /\ UNCHANGED <<race, newIn, newOut, backend, proc, stdinOpen, stdinBuf, pipe, pc, call,
                   idx, stdout, stderr, ret, exitFrom, pendErr, marker, output, fr, io,
                   sent, hist, partial>>

\* ReaderOutcome resolving with the accumulator as it is, marker included
ReaderOutcomeUntrimmed(st) ==
    IF rd[st].st = "done"
    THEN [st |-> "ok", val |-> output[st], err |-> NoErr]
    ELSE [st |-> "fail", val |-> <<>>, err |-> ReadErr]

\* ReaderOutcome taking text on stderr for a failure
ReaderOutcomeStderrFails(st) ==
    IF rd[st].st = "done" /\ ~(st = "err" /\ TrimSuffix(output[st], marker[st]) # <<>>)
    THEN [st |-> "ok", val |-> TrimSuffix(output[st], marker[st]), err |-> NoErr]
    ELSE [st |-> "fail", val |-> <<>>, err |-> ReadErr]

\* What streamReader makes of its reading task having finished first
ReaderOutcome(st) ==
    IF rd[st].st = "done"
    THEN [st |-> "ok", val |-> TrimSuffix(output[st], marker[st]), err |-> NoErr]
    ELSE [st |-> "fail", val |-> <<>>, err |-> ReadErr]

\* await.FastAny returns because the reading task finished: streamReader
\* resolves with the trimmed accumulator, or rejects with the read error.
ReaderWins(st) ==
    /\ fr[st].st = "pending"
    /\ rd[st].st \in {"done", "err"}
    /\ fr' = [fr EXCEPT ![st] = ReaderOutcome(st)]
    /\ UNCHANGED <<race, newIn, newOut, backend, proc, stdinOpen, stdinBuf, pipe, pc, call,
                   idx, stdout, stderr, ret, exitFrom, pendErr, marker, output, rd, io,
                   sent, hist, partial>>

\* The polling task of streamReader sees "ParserError" in the accumulator
FatalSeen(st) == Contains(output[st], FatalMarker)

\* WatcherWins with a polling task that never rejects
WatcherSleeps(st) == FALSE /\ UNCHANGED vars

\* await.FastAny returns because the polling task rejected with the
\* accumulator: streamReader rejects, and the reading task is told to stop.
WatcherWins(st) ==
    /\ fr[st].st = "pending"
    /\ FatalSeen(st)
    /\ fr' = [fr EXCEPT ![st] = [st |-> "fail", val |-> <<>>, err |-> FatalErr(output[st])]]
    /\ rd' = [rd EXCEPT ![st].st = IF @ = "run" THEN "stop" ELSE @]
    /\ UNCHANGED <<race, newIn, newOut, backend, proc, stdinOpen, stdinBuf, pipe, pc, call,
                   idx, stdout, stderr, ret, exitFrom, pendErr, marker, output, io,
                   sent, hist, partial>>

\* ------------------------------------------------- execute, after the await
\* await.FastAllOrError: the streamReader tasks it no longer waits for are
\* told to stop; their inner tasks are not.
Cancelled(f) == [st \in Streams |->
                    IF f[st].st = "pending" THEN [f[st] EXCEPT !.st = "cancelled"] ELSE f[st]]

\* FailedText returning what the stream's accumulator holds
FailedTextPartial(st) == output[st]

\* What execute returns for a stream when the await failed: return "", "", err
FailedText(st) == <<>>

\* IsParserError taking every error for a parser error
IsParserErrorAlways(err) == TRUE

\* IsParserError taking no error for a parser error
IsParserErrorNever(err) == FALSE

\* strings.Contains(err.Error(), "ParserError")
IsParserError(err) == Contains(err.text, FatalMarker)

\* AwaitAll going on as soon as one of the two streamReader tasks resolved
AwaitAllEither ==
    /\ pc = "await"
    /\ \E st \in Streams : fr[st].st = "ok"
    /\ \A st \in Streams : fr[st].st \in {"ok", "pending"}
    /\ stdout' = stdout \o fr["out"].val
    /\ stderr' = stderr \o fr["err"].val
    /\ idx' = idx + 1
    /\ pc' = "loop"
    /\ UNCHANGED <<race, newIn, newOut, backend, proc, stdinOpen, stdinBuf, pipe, call, ret,
                   exitFrom, pendErr, marker, output, rd, fr, io, sent, partial, hist>>

\* AwaitAll taking the result of each streamReader for the other stream
AwaitAllSwapped ==
    /\ pc = "await"
    /\ \A st \in Streams : fr[st].st = "ok"
    /\ stdout' = stdout \o fr["err"].val
    /\ stderr' = stderr \o fr["out"].val
    /\ idx' = idx + 1
    /\ pc' = "loop"
    /\ UNCHANGED <<race, newIn, newOut, backend, proc, stdinOpen, stdinBuf, pipe, call, ret,
                   exitFrom, pendErr, marker, output, rd, fr, io, sent, partial, hist>>

\* AwaitAll with Execute keeping the last command's texts only
AwaitAllOverwrite ==
    /\ pc = "await"
    /\ \A st \in Streams : fr[st].st = "ok"
    /\ stdout' = fr["out"].val
    /\ stderr' = fr["err"].val
    /\ idx' = idx + 1
    /\ pc' = "loop"
    /\ UNCHANGED <<race, newIn, newOut, backend, proc, stdinOpen, stdinBuf, pipe, call, ret,
                   exitFrom, pendErr, marker, output, rd, fr, io, sent, partial, hist>>

\* Both streamReader tasks resolved: execute returns the two texts, Execute
\* appends them and goes on with the next command.
AwaitAll ==
    /\ pc = "await"
    /\ \A st \in Streams : fr[st].st = "ok"
    /\ stdout' = stdout \o fr["out"].val
    /\ stderr' = stderr \o fr["err"].val
    /\ idx' = idx + 1
    /\ pc' = "loop"
    /\ UNCHANGED <<race, newIn, newOut, backend, proc, stdinOpen, stdinBuf, pipe, call, ret,
                   exitFrom, pendErr, marker, output, rd, fr, io, sent, hist, partial>>

\* A streamReader task rejected: execute calls Exit when the error holds
\* "ParserError", and returns "", "" and the error.
AwaitError(st) ==
    /\ pc = "await"
    /\ fr[st].st = "fail"
    /\ fr' = Cancelled(fr)
    /\ partial' = output
    /\ IF IsParserError(fr[st].err)
       THEN /\ pc' = "x_write"
            /\ exitFrom' = "execute"
            /\ pendErr' = fr[st].err
            /\ UNCHANGED <<ret, stdout, stderr, hist>>
       ELSE /\ ExecuteReturn(FailedText("out"), FailedText("err"), fr[st].err)
            /\ UNCHANGED <<exitFrom, pendErr>>
    /\ UNCHANGED <<race, newIn, newOut, backend, proc, stdinOpen, stdinBuf, pipe, call, idx,
                   marker, output, rd, io, sent>>

\* -------------------------------------------------------------------- Exit
\* A caller calls Exit()
ExitCall ==
    /\ pc = "idle"
    /\ hist.calls < MaxCalls
    /\ hist' = [hist EXCEPT !.calls = @ + 1]
    /\ call' = [op |-> "Exit", cmds |-> <<>>, startOpen |-> backend # Nil,
                afterFatal |-> hist.fatal]
    /\ io' = NoIO
    /\ sent' = <<>>
    /\ exitFrom' = "api"
    /\ pc' = "x_write"
    /\ idx' = 1
    /\ stdout' = <<>>
    /\ stderr' = <<>>
    /\ Retire
    /\ UNCHANGED <<race, newIn, newOut, backend, proc, stdinOpen, stdinBuf, pipe>>

\* The return of Exit, to its caller or into execute, which returns the error
ExitReturn ==
    IF exitFrom = "api"
    THEN /\ pc' = "idle"
         /\ ret' = [stdout |-> <<>>, stderr |-> <<>>, err |-> NoErr]
         /\ UNCHANGED <<stdout, stderr, hist>>
    ELSE ExecuteReturn(FailedText("out"), FailedText("err"), pendErr)

\* Exit on a closed shell returns at once
ExitClosed ==
    /\ pc = "x_write"
    /\ BackendIsNil
    /\ ExitReturn
    /\ UNCHANGED <<race, newIn, newOut, backend, proc, stdinOpen, stdinBuf, pipe, call, idx,
                   exitFrom, pendErr, marker, output, rd, fr, io, sent, partial>>

\* s.backend.Stdin().Write([]byte("exit" + newLine)), its error ignored
ExitWrite ==
    /\ pc = "x_write"
    /\ ~BackendIsNil
    /\ stdinBuf' = IF proc = "running" /\ stdinOpen THEN Append(stdinBuf, ExitLine)
                   ELSE stdinBuf
    /\ io' = [io EXCEPT !.write = TRUE]
    /\ pc' = "x_close"
    /\ UNCHANGED <<race, newIn, newOut, backend, proc, stdinOpen, pipe, call, idx, stdout,
                   stderr, ret, exitFrom, pendErr, marker, output, rd, fr, sent, hist,
                   partial>>

\* ExitClose leaving stdin open
ExitCloseSkipped ==
    /\ pc = "x_close"
    /\ pc' = "x_wait"
    /\ UNCHANGED <<race, newIn, newOut, backend, proc, stdinOpen, stdinBuf, pipe, call, idx,
                   stdout, stderr, ret, exitFrom, pendErr, marker, output, rd, fr, io,
                   sent, hist, partial>>

\* closer.Close(): the stdin of the local backend is an io.Closer
ExitClose ==
    /\ pc = "x_close"
    /\ stdinOpen' = FALSE
    /\ io' = [io EXCEPT !.close = TRUE]
    /\ pc' = "x_wait"
    /\ UNCHANGED <<race, newIn, newOut, backend, proc, stdinBuf, pipe, call, idx, stdout,
                   stderr, ret, exitFrom, pendErr, marker, output, rd, fr, sent, hist,
                   partial>>

\* ExitWait without s.backend = nil
ExitWaitKeepsBackend ==
    /\ pc = "x_wait"
    /\ proc = "exited"
    /\ io' = [io EXCEPT !.wait = TRUE]
    /\ pipe' = [st \in Streams |-> <<>>]
    /\ rd' = [st \in Streams |->
                 IF rd[st].st = "run" THEN [rd[st] EXCEPT !.st = "err"]
                 ELSE IF rd[st].st = "stop" THEN [rd[st] EXCEPT !.st = "halt"]
                 ELSE rd[st]]
    /\ ExitReturn
    /\ UNCHANGED <<race, newIn, newOut, backend, proc, stdinOpen, stdinBuf, call, idx,
                   exitFrom, pendErr, marker, output, fr, sent, partial>>

\* s.backend.Wait() returns once the process has exited, and closes the read
\* ends of the pipes, which fails the Reads in progress; then s.backend = nil.
ExitWait ==
    /\ pc = "x_wait"
    /\ proc = "exited"
    /\ io' = [io EXCEPT !.wait = TRUE]
    /\ pipe' = [st \in Streams |-> <<>>]
    /\ rd' = [st \in Streams |->
                 IF rd[st].st = "run" THEN [rd[st] EXCEPT !.st = "err"]
                 ELSE IF rd[st].st = "stop" THEN [rd[st] EXCEPT !.st = "halt"]
                 ELSE rd[st]]
    /\ backend' = Nil
    /\ ExitReturn
    /\ UNCHANGED <<race, newIn, newOut, proc, stdinOpen, stdinBuf, call, idx, exitFrom,
                   pendErr, marker, output, fr, sent, partial>>

\* ------------------------------------------------------- the specifications
\* The session after New() with no options, on a backend that finds pwsh
Init ==
    /\ newIn = [d |-> DefaultDecorators, w |-> GoodWorld]
    /\ newOut = New(DefaultDecorators, GoodWorld)
    /\ backend = "started"
    /\ proc = "running"
    /\ stdinOpen = TRUE
    /\ stdinBuf = <<>>
    /\ pipe = [st \in Streams |-> <<>>]
    /\ pc = "idle"
    /\ call = [op |-> "New", cmds |-> <<>>, startOpen |-> FALSE, afterFatal |-> FALSE]
    /\ idx = 1
    /\ stdout = <<>>
    /\ stderr = <<>>
    /\ ret = [stdout |-> <<>>, stderr |-> <<>>, err |-> NoErr]
    /\ exitFrom = "api"
    /\ pendErr = NoErr
    /\ marker = [st \in Streams |-> <<>>]
    /\ output = [st \in Streams |-> <<>>]
    /\ rd = NoReader
    /\ fr = NoTask
    /\ io = NoIO
    /\ sent = <<>>
    /\ partial = [st \in Streams |-> <<>>]
    /\ hist = [calls |-> 0, clean |-> TRUE, fatal |-> FALSE, crashed |-> FALSE]
    /\ race = NoRace

Next ==
    \/ \E cmds \in CmdSeqs : ExecuteCall(cmds)
    \/ ExecuteDone
    \/ \E h1 \in Hex : \E h2 \in Hex \ {h1} :
           execute(createBoundary(h1), createBoundary(h2))
    \/ \E st \in Streams : \E n \in 1..Len(pipe[st]) : ReaderRead(st, n)
    \/ \E st \in Streams : ReaderFail(st)
    \/ \E st \in Streams : ReaderStop(st)
    \/ \E st \in Streams : ReaderWins(st)
    \/ \E st \in Streams : WatcherWins(st)
    \/ AwaitAll
    \/ \E st \in Streams : AwaitError(st)
    \/ ExitCall
    \/ ExitClosed
    \/ ExitWrite
    \/ ExitClose
    \/ ExitWait
    \/ Interp
    \/ Crash

Spec == Init /\ [][Next]_vars

\* ------------------------------------------------------------ construction
\* Before New: any options, on a backend with any answers
InitNew ==
    /\ newIn \in [d : Decorators, w : Worlds]
    /\ newOut = [done |-> FALSE, s |-> {}, err |-> Nil, calls |-> <<>>]
    /\ backend = Nil
    /\ proc = "exited"
    /\ stdinOpen = FALSE
    /\ stdinBuf = <<>>
    /\ pipe = [st \in Streams |-> <<>>]
    /\ pc = "new"
    /\ call = [op |-> "New", cmds |-> <<>>, startOpen |-> FALSE, afterFatal |-> FALSE]
    /\ idx = 1
    /\ stdout = <<>>
    /\ stderr = <<>>
    /\ ret = [stdout |-> <<>>, stderr |-> <<>>, err |-> NoErr]
    /\ exitFrom = "api"
    /\ pendErr = NoErr
    /\ marker = [st \in Streams |-> <<>>]
    /\ output = [st \in Streams |-> <<>>]
    /\ rd = NoReader
    /\ fr = NoTask
    /\ io = NoIO
    /\ sent = <<>>
    /\ partial = [st \in Streams |-> <<>>]
    /\ hist = [calls |-> 0, clean |-> TRUE, fatal |-> FALSE, crashed |-> FALSE]
    /\ race = NoRace

\* A caller calls New(decorators...)
NewCall ==
    /\ pc = "new"
    /\ newOut' = New(newIn.d, newIn.w)
    /\ pc' = "idle"
    /\ backend' = IF newOut'.err = Nil THEN "started" ELSE Nil
    /\ proc' = IF newOut'.err = Nil THEN "running" ELSE "exited"
    /\ stdinOpen' = (newOut'.err = Nil)
    /\ UNCHANGED <<race, newIn, stdinBuf, pipe, call, idx, stdout, stderr, ret, exitFrom,
                   pendErr, marker, output, rd, fr, io, sent, partial, hist>>

NextNew == NewCall

SpecNew == InitNew /\ [][NextNew]_vars

\* ----------------------------------------- Exit called beside an Execute call
\* A second goroutine calls Exit() on the same Shell: the nil test and the
\* write of "exit"
CloserWrite ==
    /\ race.closer = "none"
    /\ pc \in {"loop", "chk", "await"}
    /\ IF BackendIsNil
       THEN /\ race' = [race EXCEPT !.closer = "done"]
            /\ UNCHANGED stdinBuf
       ELSE /\ race' = [race EXCEPT !.closer = "x_close"]
            /\ stdinBuf' = IF proc = "running" /\ stdinOpen
                           THEN Append(stdinBuf, ExitLine) ELSE stdinBuf
    /\ UNCHANGED <<newIn, newOut, backend, proc, stdinOpen, pipe, pc, call, idx, stdout,
                   stderr, ret, exitFrom, pendErr, marker, output, rd, fr, io, sent,
                   hist, partial>>

\* The second goroutine closes stdin
CloserClose ==
    /\ race.closer = "x_close"
    /\ stdinOpen' = FALSE
    /\ race' = [race EXCEPT !.closer = "x_wait"]
    /\ UNCHANGED <<newIn, newOut, backend, proc, stdinBuf, pipe, pc, call, idx, stdout,
                   stderr, ret, exitFrom, pendErr, marker, output, rd, fr, io, sent,
                   hist, partial>>

\* The second goroutine's Wait returns, and it sets s.backend = nil
CloserWait ==
    /\ race.closer = "x_wait"
    /\ proc = "exited"
    /\ pipe' = [st \in Streams |-> <<>>]
    /\ rd' = [st \in Streams |->
                 IF rd[st].st = "run" THEN [rd[st] EXCEPT !.st = "err"]
                 ELSE IF rd[st].st = "stop" THEN [rd[st] EXCEPT !.st = "halt"]
                 ELSE rd[st]]
    /\ backend' = Nil
    /\ race' = [race EXCEPT !.closer = "done"]
    /\ UNCHANGED <<newIn, newOut, proc, stdinOpen, stdinBuf, pc, call, idx, stdout,
                   stderr, ret, exitFrom, pendErr, marker, output, fr, io, sent, hist,
                   partial>>

\* execute on a shell it finds closed
RaceClosed ==
    /\ BackendIsNil
    /\ \E h1 \in Hex : \E h2 \in Hex \ {h1} :
          execute(createBoundary(h1), createBoundary(h2))

\* execute: the test s.backend == nil found the backend set
RaceCheck ==
    /\ pc = "loop"
    /\ idx <= Len(call.cmds)
    /\ ~BackendIsNil
    /\ pc' = "chk"
    /\ UNCHANGED <<race, newIn, newOut, backend, proc, stdinOpen, stdinBuf, pipe, call,
                   idx, stdout, stderr, ret, exitFrom, pendErr, marker, output, rd, fr,
                   io, sent, hist, partial>>

\* execute, after the test: s.backend.Stdin().Write(...) and the start of the
\* two streamReader tasks.  With s.backend set to nil in between, the method
\* call on the nil interface panics.
RaceWrite(outBoundary, errBoundary) ==
    /\ pc = "chk"
    /\ LET cmd == call.cmds[idx] IN
        IF BackendIsNil
        THEN /\ pc' = "panic"
             /\ UNCHANGED <<race, stdinBuf, marker, output, rd, fr, io, sent, stdout,
                            stderr, ret, hist>>
        ELSE IF proc # "running" \/ ~stdinOpen
        THEN /\ ExecuteReturn(<<>>, <<>>, WriteErr)
             /\ io' = [io EXCEPT !.write = TRUE]
             /\ race' = [race EXCEPT !.late = @ \/ race.closer \in {"x_close", "x_wait"}]
             /\ UNCHANGED <<stdinBuf, marker, output, rd, fr, sent>>
        ELSE /\ stdinBuf' = Append(stdinBuf, Frame(cmd, outBoundary, errBoundary))
             /\ io' = [io EXCEPT !.write = TRUE]
             /\ sent' = Append(sent, cmd)
             /\ marker' = [st \in Streams |->
                              (IF st = "out" THEN outBoundary ELSE errBoundary) \o newLine]
             /\ output' = [st \in Streams |-> <<>>]
             /\ rd' = [st \in Streams |-> [st |-> "run", by |-> hist.calls]]
             /\ fr' = [st \in Streams |-> [st |-> "pending", val |-> <<>>, err |-> NoErr]]
             /\ race' = [race EXCEPT !.late = @ \/ race.closer \in {"x_close", "x_wait"}]
             /\ pc' = "await"
             /\ UNCHANGED <<stdout, stderr, ret, hist>>
    /\ UNCHANGED <<newIn, newOut, backend, proc, stdinOpen, pipe, call, idx, exitFrom,
                   pendErr, partial>>

\* The commands of the calls raced with Exit: they parse and print no marker
RaceCmds ==
    {c \in CmdSeqs :
        /\ ~Colliding(c)
        /\ \A i \in 1..Len(c) :
              ~Contains(c[i].out, FatalMarker) /\ ~Contains(c[i].err, FatalMarker)}

\* One Execute call on a fresh session
RaceExecuteCall ==
    /\ hist.calls = 0
    /\ \E cmds \in RaceCmds : ExecuteCall(cmds)

NextRace ==
    \/ RaceExecuteCall
    \/ ExecuteDone
    \/ RaceClosed
    \/ RaceCheck
    \/ \E h1 \in Hex : \E h2 \in Hex \ {h1} :
           RaceWrite(createBoundary(h1), createBoundary(h2))
    \/ \E st \in Streams : \E n \in 1..Len(pipe[st]) : ReaderRead(st, n)
    \/ \E st \in Streams : ReaderFail(st)
    \/ \E st \in Streams : ReaderWins(st)
    \/ AwaitAll
    \/ \E st \in Streams : AwaitError(st)
    \/ Interp
    \/ CloserWrite
    \/ CloserClose
    \/ CloserWait

\* An Execute call and an Exit call by two goroutines, on a session just made
SpecRace == Init /\ [][NextRace]_vars

\* ------------------------------------------------ one call, run to its end
\* One Execute call on a fresh session
LiveExecuteCall ==
    /\ hist.calls = 0
    /\ \E cmds \in CmdSeqs : ExecuteCall(cmds)

NextLive ==
    \/ LiveExecuteCall
    \/ ExecuteDone
    \/ \E h1 \in Hex : \E h2 \in Hex \ {h1} :
           execute(createBoundary(h1), createBoundary(h2))
    \/ \E st \in Streams : \E n \in 1..Len(pipe[st]) : ReaderRead(st, n)
    \/ \E st \in Streams : ReaderFail(st)
    \/ \E st \in Streams : ReaderStop(st)
    \/ \E st \in Streams : ReaderWins(st)
    \/ \E st \in Streams : WatcherWins(st)
    \/ AwaitAll
    \/ \E st \in Streams : AwaitError(st)
    \/ ExitWrite
    \/ ExitClose
    \/ ExitWait
    \/ Interp
    \/ Crash

\* What keeps running: the polling goroutine of streamReader wakes every
\* millisecond, the goroutine of the caller goes on through execute and Exit,
\* and the interpreter handles the lines of its stdin ("exit" among them).
\* Nothing is assumed of the Reads: a Read may stay blocked for ever.
LiveFairness ==
    /\ WF_vars(\E st \in Streams : WatcherWins(st))
    /\ WF_vars(\E st \in Streams : AwaitError(st))
    /\ WF_vars(ExitWrite)
    /\ WF_vars(ExitClose)
    /\ WF_vars(ExitWait)
    /\ WF_vars(Interp)

SpecLive == Init /\ [][NextLive]_vars /\ LiveFairness

\* ------------------------------------- the two pipes filled byte by byte
\* The interpreter runs the next line of its stdin: what the line prints is
\* now to be written, in any order between the two streams.
InterpStart ==
    /\ proc = "running"
    /\ stdinBuf # <<>>
    /\ Head(stdinBuf).kind = "cmd"
    /\ LET line == Head(stdinBuf) IN
         stdinBuf' = <<[kind |-> "emit", out |-> Emits(line, "out"),
                        err |-> Emits(line, "err")]>> \o Tail(stdinBuf)
    /\ UNCHANGED <<race, newIn, newOut, backend, proc, stdinOpen, pipe, pc, call, idx,
                   stdout, stderr, ret, exitFrom, pendErr, marker, output, rd, fr, io,
                   sent, hist, partial>>

\* The interpreter writes the next byte of stream st into its pipe; the line
\* is done when nothing is left to write on either stream.
InterpByte(st) ==
    /\ proc = "running"
    /\ stdinBuf # <<>>
    /\ Head(stdinBuf).kind = "emit"
    /\ Head(stdinBuf)[st] # <<>>
    /\ LET line == Head(stdinBuf)
           rest == [line EXCEPT ![st] = Tail(@)]
       IN  /\ pipe' = [pipe EXCEPT ![st] = Append(@, Head(line[st]))]
           /\ stdinBuf' = IF rest.out = <<>> /\ rest.err = <<>>
                          THEN Tail(stdinBuf)
                          ELSE <<rest>> \o Tail(stdinBuf)
    /\ UNCHANGED <<race, newIn, newOut, backend, proc, stdinOpen, pc, call, idx, stdout,
                   stderr, ret, exitFrom, pendErr, marker, output, rd, fr, io, sent,
                   hist, partial>>

\* Commands that print text on one stream or on both, and no marker
StreamCmds ==
    {[name |-> "ab", out |-> <<"a">>, err |-> <<"b">>, parses |-> TRUE],
     [name |-> "aa", out |-> <<"a", "a">>, err |-> <<>>, parses |-> TRUE],
     [name |-> "bb", out |-> <<>>, err |-> <<"b", "b">>, parses |-> TRUE]}

\* One Execute call of one such command on a fresh session
StreamExecuteCall ==
    /\ hist.calls = 0
    /\ \E c \in StreamCmds : ExecuteCall(<<c>>)

NextStreams ==
    \/ StreamExecuteCall
    \/ ExecuteDone
    \/ \E h1 \in Hex : \E h2 \in Hex \ {h1} :
           execute(createBoundary(h1), createBoundary(h2))
    \/ InterpStart
    \/ \E st \in Streams : InterpByte(st)
    \/ \E st \in Streams : \E n \in 1..Len(pipe[st]) : ReaderRead(st, n)
    \/ \E st \in Streams : ReaderWins(st)
    \/ AwaitAll

\* One command whose output reaches the two pipes in any order
SpecStreams == Init /\ [][NextStreams]_vars

\* ------------------------------ the accumulator, read while it is written
\* Bytes that may lie in memory after the text of a string
Garbage == {"P", "E"}

\* output is a variable shared by the two inner tasks of streamReader with no
\* synchronisation.  The polling task tests it while the reading task assigns
\* output + chunk: reading the two words of the string one by one it can get
\* the new length with the old data, that is the old text followed by the n
\* bytes g that lie after it in memory.  It finds the marker in what it read
\* and rejects with it; the reading task, its assignment done, is told to stop.
WatcherWinsTorn(st, n, g) ==
    /\ fr[st].st = "pending"
    /\ rd[st].st = "run"
    /\ n \in 1..Min(bufferSize, Len(pipe[st]))
    /\ n <= MaxTorn
    /\ Contains(output[st] \o g, FatalMarker)
    /\ pipe' = [pipe EXCEPT ![st] = SubSeq(@, n + 1, Len(@))]
    /\ output' = [output EXCEPT ![st] = @ \o SubSeq(pipe[st], 1, n)]
    /\ rd' = [rd EXCEPT ![st].st =
                 IF HasSuffix(output'[st], marker[st]) THEN "done" ELSE "stop"]
    /\ io' = [io EXCEPT !.read = TRUE]
    /\ fr' = [fr EXCEPT ![st] =
                 [st |-> "fail", val |-> <<>>, err |-> FatalErr(output[st] \o g)]]
    /\ UNCHANGED <<race, newIn, newOut, backend, proc, stdinOpen, stdinBuf, pc, call, idx,
                   stdout, stderr, ret, exitFrom, pendErr, marker, sent, hist, partial>>

\* One Execute call, on a fresh session, of one command that prints no marker
TornExecuteCall ==
    /\ hist.calls = 0
    /\ \E c \in StreamCmds : ExecuteCall(<<c>>)

NextTorn ==
    \/ TornExecuteCall
    \/ ExecuteDone
    \/ \E h1 \in Hex : \E h2 \in Hex \ {h1} :
           execute(createBoundary(h1), createBoundary(h2))
    \/ \E st \in Streams : \E n \in 1..Len(pipe[st]) : ReaderRead(st, n)
    \/ \E st \in Streams : ReaderStop(st)
    \/ \E st \in Streams : ReaderWins(st)
    \/ \E st \in Streams : \E n \in 1..Min(MaxTorn, Len(pipe[st])) :
          \E g \in [1..n -> Garbage] : WatcherWinsTorn(st, n, g)
    \/ AwaitAll
    \/ \E st \in Streams : AwaitError(st)
    \/ ExitWrite
    \/ ExitClose
    \/ ExitWait
    \/ Interp

\* One call, with the polling task reading the accumulator as it is written
SpecTorn == Init /\ [][NextTorn]_vars

\* ---------------------------------------------------------------- properties
\* The text the commands of cmds write to stream st, one after the other
RECURSIVE Texts(_, _)
Texts(cmds, st) ==
    IF cmds = <<>> THEN <<>>
    ELSE (IF st = "out" THEN Head(cmds).out ELSE Head(cmds).err) \o Texts(Tail(cmds), st)

\* An Execute call has returned
Returned == pc = "idle" /\ call.op = "Execute"

\* No command of cmds writes the fatal marker
NoFatalText(cmds) ==
    \A i \in 1..Len(cmds) :
        ~Contains(cmds[i].out, FatalMarker) /\ ~Contains(cmds[i].err, FatalMarker)

\* C1 as stated: an Execute call on an open session whose commands write no
\* boundary, the process alive and every Read delivering its bytes, returns no
\* error and exactly the text the commands wrote to stdout and to stderr.
C1_RoundTripAsStated ==
    (Returned /\ call.startOpen /\ hist.clean /\ ~hist.crashed)
        => /\ ret.err = NoErr
           /\ ret.stdout = Texts(call.cmds, "out")
           /\ ret.stderr = Texts(call.cmds, "err")

\* C1, amended: the same for commands that write neither a boundary nor the
\* fatal marker, however the streams are split into Reads.
C1_RoundTrip ==
    (Returned /\ call.startOpen /\ hist.clean /\ ~hist.crashed
        /\ NoFatalText(call.cmds))
        => /\ ret.err = NoErr
           /\ ret.stdout = Texts(call.cmds, "out")
           /\ ret.stderr = Texts(call.cmds, "err")

\* C1 witness: two commands returned their text after a Read that ended
\* inside a marker.
C1_Witness ==
    /\ Returned /\ call.startOpen /\ hist.clean /\ ~hist.crashed
    /\ Len(call.cmds) = 2 /\ NoFatalText(call.cmds)
    /\ io.split
    /\ ret.stdout = <<"a", "a">> /\ ret.stderr = <<"b", "b">>

\* C2 as stated: an Execute call that leaves the fatal marker in an
\* accumulator returns an error and closes the session, and every Execute
\* after a fatal call returns the closed-shell error.
C2_FatalClosesAsStated ==
    /\ (Returned /\ call.startOpen /\ (\E st \in Streams : FatalSeen(st)))
          => (ret.err # NoErr /\ backend = Nil)
    /\ (Returned /\ call.afterFatal) => ret.err.kind = "closed"

\* C2, what the code does guarantee: an Execute call that returns an error
\* whose message holds the fatal marker (a polling task saw the marker and its
\* rejection is the error the call returns) leaves the session closed, and
\* every later Execute of at least one command returns the closed-shell error.
C2_FatalErrorCloses ==
    /\ (Returned /\ ret.err.kind = "fatal") => IsParserError(ret.err)
    /\ (Returned /\ ret.err # NoErr /\ Contains(ret.err.text, FatalMarker))
          => backend = Nil
    /\ hist.fatal => backend = Nil
    /\ (Returned /\ call.afterFatal /\ Len(call.cmds) >= 1)
          => ret.err.kind = "closed"

\* C2 witness: the process alive, an accumulator held the fatal marker, the
\* reading task found the sentinel before the polling task looked, and the
\* call returned no error on a session that is still open.
C2_Witness ==
    /\ Returned /\ call.startOpen /\ ~hist.crashed
    /\ \E st \in Streams : FatalSeen(st)
    /\ ret.err = NoErr /\ backend # Nil /\ proc = "running"

\* C3 as stated: Execute on a closed session, whatever the number of
\* commands, returns the closed-shell error and does no I/O.
C3_ClosedRejectsAsStated ==
    (Returned /\ ~call.startOpen)
        => /\ ret.err.kind = "closed"
           /\ ~io.write /\ ~io.read

\* C3, amended: Execute on a closed session writes nothing to stdin and
\* reads nothing; with at least one command it returns the closed-shell
\* error, naming the first command, and with none it returns no error.
C3_ClosedRejects ==
    (call.op = "Execute" /\ ~call.startOpen)
        => /\ ~io.write /\ ~io.read /\ sent = <<>>
           /\ pc \in {"idle", "loop"}
           /\ (pc = "idle" /\ Len(call.cmds) >= 1)
                 => (ret.err.kind = "closed" /\ ret.err.cmd = call.cmds[1].name
                     /\ ret.stdout = <<>> /\ ret.stderr = <<>>)
           /\ (pc = "idle" /\ Len(call.cmds) = 0) => ret.err = NoErr

\* C3 witness: an Execute of two commands on a closed session has returned.
C3_Witness ==
    /\ Returned /\ ~call.startOpen /\ Len(call.cmds) = 2
    /\ ret.err.kind = "closed" /\ ~io.write /\ ~io.read

\* C4: the first Exit on an open session leaves it closed; an Exit on a
\* closed session makes no backend call; no step reopens a closed session.
C4_CloseIdempotent ==
    /\ []((pc = "idle" /\ call.op = "Exit") => backend = Nil)
    /\ []((call.op = "Exit" /\ ~call.startOpen) => io = NoIO)
    /\ [][backend = Nil => backend' = Nil]_vars

\* C4 witness: a second Exit has returned.
C4_Witness ==
    /\ pc = "idle" /\ call.op = "Exit" /\ ~call.startOpen
    /\ hist.calls >= 2 /\ ~hist.fatal /\ io = NoIO

\* The commands of cmds all write text without the fatal marker to stderr
StderrTalk(cmds) ==
    \A i \in 1..Len(cmds) :
        cmds[i].err # <<>> /\ ~Contains(cmds[i].err, FatalMarker)

\* C5: an Execute call on an open session returns an error only for a fatal
\* marker seen in an accumulator, a failed write to stdin or a failed Read;
\* commands that write text without the marker to stderr, and none to stdout,
\* return that text and no error when the process stays alive.
C5_StderrNotFailure ==
    /\ (Returned /\ call.startOpen /\ ret.err # NoErr)
          => \/ ret.err.kind = "fatal" /\ \E st \in Streams : FatalSeen(st)
             \/ ret.err.kind = "write" /\ io.write /\ proc = "exited"
             \/ ret.err.kind = "read" /\ io.read /\ proc = "exited"
    /\ (Returned /\ call.startOpen /\ StderrTalk(call.cmds) /\ hist.clean
          /\ NoFatalText(call.cmds) /\ ~hist.crashed)
          => (ret.err = NoErr /\ ret.stderr = Texts(call.cmds, "err"))

\* C5 witness: a command that wrote to stderr returned the text and no error.
C5_Witness ==
    /\ Returned /\ call.startOpen /\ Len(call.cmds) = 1
    /\ StderrTalk(call.cmds) /\ ret.err = NoErr /\ ret.stderr = <<"b">>

\* The lines of commands the interpreter has not handled yet
Unhandled == {i \in 1..Len(stdinBuf) : stdinBuf[i].kind = "cmd"}

\* C6: Execute writes its commands in order, one cycle at a time; when the
\* cycle of command idx fails the error names that command, and no later
\* command has been written.
C6_StopAtFirstFailure ==
    call.op = "Execute"
        => /\ Len(sent) <= Len(call.cmds)
           /\ sent = SubSeq(call.cmds, 1, Len(sent))
           /\ Cardinality(Unhandled) <= 1
           /\ pc = "loop" => Len(sent) = idx - 1
           /\ pc \in {"await", "x_write", "x_close", "x_wait"} => Len(sent) = idx
           /\ (pc = "idle" /\ ret.err # NoErr)
                 => /\ idx <= Len(call.cmds)
                    /\ ret.err.cmd = call.cmds[idx].name
                    /\ Len(sent) \in {idx - 1, idx}
           /\ (pc = "idle" /\ ret.err = NoErr) => sent = call.cmds

\* C6 witness: the first of two commands failed after it was written, and
\* the second was never written.
C6_Witness ==
    /\ Returned /\ Len(call.cmds) = 2 /\ call.cmds[1] # call.cmds[2]
    /\ ret.err # NoErr /\ idx = 1 /\ sent = <<call.cmds[1]>>
    /\ ret.err.cmd = call.cmds[1].name

\* C7 as stated: when command idx fails, Execute returns the text of the
\* commands before it followed by what the accumulators held at the failure.
C7_PartialOutputAsStated ==
    (Returned /\ call.startOpen /\ ret.err # NoErr /\ hist.clean)
        => /\ ret.stdout = Texts(SubSeq(call.cmds, 1, idx - 1), "out") \o partial["out"]
           /\ ret.stderr = Texts(SubSeq(call.cmds, 1, idx - 1), "err") \o partial["err"]

\* C7, amended: when command idx fails, Execute returns the text of the
\* commands before it and nothing of the failing command.
C7_PartialOutput ==
    (Returned /\ call.startOpen /\ ret.err # NoErr /\ hist.clean)
        => /\ ret.stdout = Texts(SubSeq(call.cmds, 1, idx - 1), "out")
           /\ ret.stderr = Texts(SubSeq(call.cmds, 1, idx - 1), "err")

\* C7 witness: the second command failed with text in an accumulator, and
\* the call returned the text of the first command only.
C7_Witness ==
    /\ Returned /\ call.startOpen /\ ret.err # NoErr /\ hist.clean
    /\ idx = 2 /\ partial["err"] # <<>>
    /\ ret.stdout = <<"a">> /\ ret.stderr = <<"b">>

\* C8: on a fresh session, Execute(a) returns the text of a, so that
\* Execute(a, b) returning the text of a followed by that of b returns what
\* Execute(a) and Execute(b) return on fresh sessions, one after the other.
C8_Concatenation ==
    (Returned /\ hist.calls = 1 /\ ret.err = NoErr /\ hist.clean)
        => /\ Len(call.cmds) = 1
              => /\ ret.stdout = call.cmds[1].out
                 /\ ret.stderr = call.cmds[1].err
           /\ Len(call.cmds) = 2
              => /\ ret.stdout = call.cmds[1].out \o call.cmds[2].out
                 /\ ret.stderr = call.cmds[1].err \o call.cmds[2].err

\* C8 witness: Execute(a, b) of two different commands returned on a fresh
\* session.
C8_Witness ==
    /\ Returned /\ hist.calls = 1 /\ ret.err = NoErr /\ hist.clean
    /\ Len(call.cmds) = 2 /\ call.cmds[1].out # call.cmds[2].out
    /\ ret.stdout = call.cmds[1].out \o call.cmds[2].out
    /\ ret.stdout # <<>>

\* The calls New made of backend method f
CallsOf(f) == {i \in 1..Len(newOut.calls) : newOut.calls[i].f = f}

\* New called LookPath(name)
Looked(name) == \E i \in CallsOf("LookPath") : newOut.calls[i].a = <<name>>

\* C9: without an interpreter path New looks up "pwsh" first and
\* "powershell" only after that failed; when both lookups fail, or the lookup
\* of sudo fails, or StartProcess fails, New returns no shell and an error;
\* StartProcess is not called after a failed lookup, is called at most once,
\* and only after SetEnv and SetWorkingDir.
C9_ConstructionFailsFast ==
    newOut.done =>
        LET c == newOut.calls
            w == newIn.w
            bothFail == newIn.d.pwsh = "" /\ ~w.look["pwsh"] /\ ~w.look["powershell"]
            sudoFail == Looked("sudo") /\ ~w.look["sudo"]
            startFail == CallsOf("StartProcess") # {} /\ ~w.start
        IN  /\ newIn.d.pwsh = ""
               => \E i \in CallsOf("LookPath") :
                     /\ c[i].a = <<"pwsh">>
                     /\ \A j \in CallsOf("LookPath") : j >= i
            /\ \A i \in CallsOf("LookPath") :
                  c[i].a = <<"powershell">>
                     => /\ ~w.look["pwsh"]
                        /\ \E j \in CallsOf("LookPath") : j < i /\ c[j].a = <<"pwsh">>
            /\ (bothFail \/ sudoFail \/ startFail)
                  => (newOut.s = {} /\ newOut.err # Nil)
            /\ (bothFail \/ sudoFail) => CallsOf("StartProcess") = {}
            /\ (newOut.s = {}) = (newOut.err # Nil)
            /\ Cardinality(CallsOf("StartProcess")) <= 1
            /\ \A i \in CallsOf("StartProcess") :
                  /\ \E j \in CallsOf("SetEnv") : j < i
                  /\ \E j \in CallsOf("SetWorkingDir") : j < i

\* C9 witness: "pwsh" was not found, "powershell" was, and the process started.
C9_Witness ==
    /\ newOut.done /\ newOut.err = Nil
    /\ Looked("pwsh") /\ Looked("powershell")
    /\ CallsOf("StartProcess") # {}

\* C10 as stated: whenever Elevated was applied, with no argument or with a
\* path, a construction that succeeded started the sudo binary with the
\* interpreter path, -NoExit, -Command, - as arguments, and nothing else.
C10_ElevationAsStated ==
    (newOut.done /\ newOut.err = Nil /\ newIn.d.elev.applied)
        => \A sh \in newOut.s :
              /\ CallsOf("StartProcess") # {}
              /\ \A i \in CallsOf("StartProcess") :
                    /\ newOut.calls[i].a = <<sh.sudoLocation, sh.pwshLocation>> \o PwshArgs
                    /\ sh.sudoLocation # ""

\* C10, what the code does guarantee: the same when Elevated was applied
\* with no argument or with a path that is not the empty string.
C10_ElevationNonEmpty ==
    (newOut.done /\ newOut.err = Nil /\ newIn.d.elev.applied
        /\ newIn.d.elev.args # <<"">>)
        => \A sh \in newOut.s :
              /\ CallsOf("StartProcess") # {}
              /\ \A i \in CallsOf("StartProcess") :
                    /\ newOut.calls[i].a = <<sh.sudoLocation, sh.pwshLocation>> \o PwshArgs
                    /\ sh.sudoLocation # ""

\* C10 witness: Elevated("") was applied, the construction succeeded, and
\* StartProcess was given the interpreter itself.
C10_Witness ==
    /\ newOut.done /\ newOut.err = Nil
    /\ newIn.d.elev.applied /\ newIn.d.elev.args = <<"">>
    /\ \E sh \in newOut.s : \E i \in CallsOf("StartProcess") :
          newOut.calls[i].a = <<sh.pwshLocation>> \o PwshArgs

\* C11 as stated: when Exit is called beside an Execute call, execute never
\* calls a method of s.backend after Exit set it to nil, and never writes to
\* the backend after Exit has begun its teardown.
C11_CloseAtomicAsStated ==
    /\ pc # "panic"
    /\ ~race.late

\* C11 witness: execute passed its nil test, Exit ran to its end, and the
\* call s.backend.Stdin() was made on the nil backend.
C11_Witness ==
    /\ pc = "panic" /\ race.closer = "done" /\ backend = Nil
    /\ call.op = "Execute" /\ call.startOpen

\* C12 as stated: once a call whose stream task failed has returned, no
\* reading task it started is still in its loop, and none completes a Read
\* after the return.
C12_CancellationAsStated ==
    /\ (Returned /\ ret.err.kind \in {"read", "fatal"})
          => \A st \in Streams : ~Reading(rd[st])
    /\ ~race.stray

\* C12 witness: the call returned a read error of one stream, and the
\* reading task of the other stream took bytes from its pipe afterwards.
C12_Witness ==
    /\ Returned /\ ret.err.kind = "read" /\ race.stray
    /\ \E st \in Streams : fr[st].st = "cancelled" /\ output[st] # partial[st]

\* C13: when the fatal marker is in an accumulator of a call whose command
\* line did not parse, so that no sentinel follows on either stream, the call
\* returns an error in the end, whether or not a Read ever returns again.
C13_FatalPreempts ==
    (/\ pc = "await"
     /\ ~call.cmds[idx].parses
     /\ \E st \in Streams : FatalSeen(st))
        ~> (Returned /\ ret.err # NoErr)

\* C13 witness: the call returned the fatal error although nothing was ever
\* read from stdout, whose Read ended only when Exit's Wait closed the pipe.
C13_Witness ==
    /\ Returned /\ ret.err.kind = "fatal" /\ ~hist.crashed
    /\ ~call.cmds[idx].parses
    /\ output["out"] = <<>> /\ rd["out"].st = "err"

\* C14: whatever the order in which the bytes of one command reach the two
\* pipes, no stream task fails, each resolves with the text the command wrote
\* to its own stream, and the call returns those two texts and no error.
C14_IndependentStreams ==
    /\ pc = "await"
          => \A st \in Streams :
                /\ fr[st].st \in {"pending", "ok"}
                /\ fr[st].st = "ok" => fr[st].val = Texts(<<call.cmds[idx]>>, st)
    /\ Returned
          => /\ ret.err = NoErr
             /\ ret.stdout = Texts(call.cmds, "out")
             /\ ret.stderr = Texts(call.cmds, "err")

\* C14 witness: the stderr task resolved with the command's stderr text
\* while the interpreter had not yet written the first byte of stdout.
C14_Witness ==
    /\ pc = "await" /\ call.cmds[idx].name = "ab"
    /\ fr["err"].st = "ok" /\ fr["err"].val = <<"b">>
    /\ output["out"] = <<>> /\ pipe["out"] = <<>>
    /\ stdinBuf # <<>> /\ Head(stdinBuf).kind = "emit"
    /\ Len(Head(stdinBuf).out) = Len(call.cmds[idx].out) + Len(marker["out"])

\* C15: an Execute call that began on an open session leaves it closed only
\* after a polling task rejected with an accumulator that holds the fatal
\* marker; a failed write to stdin returns its error with the command not
\* written and no reading task started, the session open; a failed Read
\* returns its error, the session open.
C15_OnlyFatalCloses ==
    /\ (call.op = "Execute" /\ call.startOpen /\ backend = Nil)
          => /\ pc = "idle" /\ ret.err.kind = "fatal"
             /\ \E st \in Streams :
                   fr[st].st = "fail" /\ fr[st].err.kind = "fatal" /\ FatalSeen(st)
    /\ (Returned /\ ret.err.kind = "write")
          => /\ backend # Nil
             /\ Len(sent) = idx - 1
             /\ \A st \in Streams : rd[st].by = hist.calls => ~Reading(rd[st])
             /\ idx = 1 => ~io.read
    /\ (Returned /\ ret.err.kind = "read")
          => (backend # Nil /\ io.read)

\* C15 witness: a Read failed during the second command, the call returned
\* the read error and the session is open.
C15_Witness ==
    /\ Returned /\ ret.err.kind = "read" /\ backend # Nil
    /\ idx = 2 /\ Len(sent) = 2 /\ hist.crashed

\* C16: Exit on an open session writes "exit" to stdin (one line, when the
\* write can succeed), then closes stdin, then waits for the process, and
\* sets the backend to nil only in the step in which Wait returns; a failed
\* write (the process has exited already) does not keep it from the close,
\* the Wait and the nil.
C16_TeardownOrder ==
    /\ [][(pc = "x_write" /\ pc' # "x_write" /\ backend # Nil)
            => /\ pc' = "x_close" /\ io'.write /\ ~io.close /\ ~io.wait
               /\ backend' # Nil
               /\ stdinBuf' = IF proc = "running" /\ stdinOpen
                              THEN Append(stdinBuf, ExitLine) ELSE stdinBuf]_vars
    /\ [][(pc = "x_close" /\ pc' # "x_close")
            => /\ pc' = "x_wait" /\ io'.close /\ ~stdinOpen' /\ ~io.wait
               /\ backend' # Nil /\ stdinBuf' = stdinBuf]_vars
    /\ [][(pc = "x_wait" /\ pc' # "x_wait")
            => /\ pc' = "idle" /\ io'.wait /\ io.write /\ io.close
               /\ proc = "exited" /\ backend' = Nil]_vars
    /\ [][(backend # Nil /\ backend' = Nil) => pc = "x_wait"]_vars
    /\ []((pc = "idle" /\ call.op = "Exit" /\ call.startOpen)
            => (io.write /\ io.close /\ io.wait /\ backend = Nil))

\* C16 witness: the process had died before Exit was called; the write of
\* "exit" failed, and Exit still closed stdin, waited and closed the session.
C16_Witness ==
    /\ pc = "idle" /\ call.op = "Exit" /\ call.startOpen
    /\ hist.crashed /\ stdinBuf = <<>>
    /\ io.write /\ io.close /\ io.wait /\ ~stdinOpen /\ backend = Nil

\* C17: on a session whose commands print no sentinel, every Execute call
\* that returns no error returns exactly the text of its own commands;
\* each cycle starts with nothing of an earlier command left in the pipes of
\* the running process; and while a reading task of an earlier call is still
\* in its loop the process has exited and no command of the current call has
\* been written, so that task can take no byte of the current call.
C17_CrossCallIsolation ==
    /\ (Returned /\ ret.err = NoErr /\ hist.clean)
          => /\ ret.stdout = Texts(call.cmds, "out")
             /\ ret.stderr = Texts(call.cmds, "err")
    /\ (pc = "loop" /\ proc = "running" /\ hist.clean)
          => \A st \in Streams : pipe[st] = <<>>
    /\ \A st \in Streams :
          (Reading(rd[st]) /\ rd[st].by < hist.calls)
             => (sent = <<>> /\ proc = "exited")

\* C17 witness: a later call on the session returned the text of its own two
\* commands and no error.
C17_Witness ==
    /\ Returned /\ hist.calls >= 2 /\ call.startOpen /\ hist.clean
    /\ ret.err = NoErr /\ Len(call.cmds) = 2
    /\ ret.stdout = Texts(call.cmds, "out") /\ ret.stdout # <<>>
    /\ ret.stderr = Texts(call.cmds, "err")

\* A streamReader task has matched its sentinel
Matched(st) ==
    fr[st].st = "ok" /\ rd[st].st = "done" /\ HasSuffix(output[st], marker[st])

\* A streamReader task has failed on the fatal marker or on a Read
Failed(st) ==
    /\ fr[st].st = "fail"
    /\ \/ fr[st].err.kind = "fatal" /\ FatalSeen(st)
       \/ fr[st].err.kind = "read" /\ rd[st].st = "err"

\* C18: execute leaves its await only when both streamReader tasks matched
\* their sentinel or one of them failed, on the fatal marker or on a Read;
\* it returns before the await only with the closed-shell error or a failed
\* write; a streamReader task resolves only on its sentinel and rejects only
\* on the marker or a failed Read; so while a stream delivers none of these
\* the call stays in its await, for any length of time.
C18_NoTimeout ==
    /\ [][(pc = "await" /\ pc' # "await")
            => \/ \A st \in Streams : Matched(st)
               \/ \E st \in Streams : Failed(st)]_vars
    /\ [][(pc = "loop" /\ idx <= Len(call.cmds) /\ pc' = "idle")
            => /\ ret'.err.kind \in {"closed", "write"}
               /\ ret'.err.kind = "closed" => backend = Nil
               /\ ret'.err.kind = "write" => (proc # "running" \/ ~stdinOpen)]_vars
    /\ [][\A st \in Streams :
            (pc = "await" /\ fr[st].st = "pending" /\ fr'[st].st # "pending")
               => \/ fr'[st].st = "ok" /\ HasSuffix(output[st], marker[st])
                  \/ fr'[st].st = "fail" /\ (FatalSeen(st) \/ rd[st].st = "err")
                  \/ fr'[st].st = "cancelled" /\ \E o \in Streams : Failed(o)]_vars

\* C18 witness: the command is still running and has printed nothing; both
\* Reads are blocked, and no step of the call can be taken.
C18_Witness ==
    /\ pc = "await" /\ proc = "running" /\ stdinBuf # <<>>
    /\ \A st \in Streams :
          /\ fr[st].st = "pending" /\ rd[st].st = "run"
          /\ pipe[st] = <<>> /\ output[st] = <<>>
    /\ ~ENABLED AwaitAll
    /\ \A st \in Streams : ~ENABLED AwaitError(st) /\ ~ENABLED ReaderWins(st)
                           /\ ~ENABLED WatcherWins(st) /\ ~ENABLED ReaderFail(st)

\* p is the beginning of s
IsPrefix(p, s) == Len(p) <= Len(s) /\ SubSeq(s, 1, Len(p)) = p

\* What the interpreter writes to stream st for the command being run
Written(st) ==
    LET cmd == call.cmds[idx]
    IN  IF ~cmd.parses THEN (IF st = "err" THEN cmd.err ELSE <<>>)
        ELSE Texts(<<cmd>>, st) \o marker[st]

\* C19 as stated: during a cycle of a command that prints no sentinel the accumulator of a stream is the beginning,
\* in order, of what was written to the stream; a reading task is done only
\* on an accumulator that ends with the marker; and a streamReader task fails
\* as fatal only with a text that is a beginning of the accumulator and holds
\* the fatal marker.
C19_GrowingPrefixAsStated ==
    (pc = "await" /\ hist.clean) =>
        \A st \in Streams :
            /\ IsPrefix(output[st], Written(st))
            /\ rd[st].st = "done" => HasSuffix(output[st], marker[st])
            /\ (fr[st].st = "fail" /\ fr[st].err.kind = "fatal")
                  => /\ FatalSeen(st)
                     /\ IsPrefix(fr[st].err.text, output[st])
                     /\ Contains(fr[st].err.text, FatalMarker)

\* C19 witness: a command that printed no fatal marker failed as fatal, on
\* a text the accumulator never held, and the session was closed.
C19_Witness ==
    /\ Returned /\ ret.err.kind = "fatal" /\ backend = Nil /\ ~hist.crashed
    /\ Len(call.cmds) = 1 /\ NoFatalText(call.cmds)
    /\ \E st \in Streams :
          /\ fr[st].st = "fail" /\ ~FatalSeen(st)
          /\ ~IsPrefix(fr[st].err.text, output[st])

====
